---- MODULE Spec2Model ----
(***************************************************************************)
(* Data-availability certificate codec, mode selector, store-signer        *)
(* address resolver (package das) and the layered configuration loader     *)
(* (package util).                                                         *)
(*                                                                         *)
(* Conventions                                                             *)
(*   - a Go []byte / [n]byte is a sequence of numbers 0..255;              *)
(*   - a Go uint64 is four 16-bit limbs, most significant first (TLC's     *)
(*     integers are 32 bits wide, so the 64 bits are kept in limbs);       *)
(*   - a Go string is a TLA+ string, except where the code looks inside    *)
(*     it (the hex text of an address), where it is a sequence of          *)
(*     one-character strings;                                              *)
(*   - a Go pointer, or a value that is not there yet, is a sequence of    *)
(*     at most one element: <<>> is nil, <<v>> points at v;                *)
(*   - a Go error is its message, and NilErr is the nil error.             *)
(***************************************************************************)
EXTENDS Integers, Sequences, FiniteSets, TLC

VARIABLES
    c1, c2,             \* two certificates handed to the codec (<<>>: none)
    wire1, wire2,       \* Serialize(c1), Serialize(c2); <<>> before the call
    signable1, signable2, \* serializeSignableFields(c1), (c2); <<>> before the call
    decoded,            \* <<result of deserializing wire1>>; <<>> before the call
    config,             \* the DataAvailabilityConfig struct
    modeRet,            \* <<what the last call of config.Mode() returned>>; <<>> before
    modeTrace,          \* observable events of the last call of Mode, in order
    modeCalls,          \* number of Mode calls made on the current config
    addrIn,             \* argument of StoreSignerAddressFromString
    addrRet,            \* <<its return value>>; <<>> before the call
    flagSet,            \* the pflag.FlagSet after f.Parse(args)
    world,              \* what the loader can read: config strings, files, S3, environment
    parseRet            \* <<what BeginCommonParse returned>>; <<>> before the call

vars == <<c1, c2, wire1, wire2, signable1, signable2, decoded,
          config, modeRet, modeTrace, modeCalls,
          addrIn, addrRet, flagSet, world, parseRet>>

codecVars == <<c1, c2, wire1, wire2, signable1, signable2, decoded>>
modeVars == <<config, modeRet, modeTrace, modeCalls>>
addrVars == <<addrIn, addrRet>>
parseVars == <<flagSet, world, parseRet>>

NilErr == "<nil>"

(***************************************************************************)
(* Bounds of the model.                                                    *)
(***************************************************************************)
MaxHashSeed == 1
MaxU64Seed == 1
MaxSigSeed == 1
MaxModeCalls == 2
MaxHexChars == 44
MaxBodySeed == 1

(***************************************************************************)
(* Certificate codec (das.go, Serialize / serializeSignableFields).        *)
(***************************************************************************)
HashLen == 32

\* A 32-byte hash: seed 0 is all zero, the others have 32 different bytes.
SampleHash(i) == [k \in 1..HashLen |-> (i * (k + 6)) % 256]

Hashes == {SampleHash(i) : i \in 0..MaxHashSeed}

\* A uint64 as four 16-bit limbs; seed 1 is 0x0102030405060708.
SampleU64(i) ==
    << (i * 258) % 65536, (i * 772) % 65536,
       (i * 1286) % 65536, (i * 1800) % 65536 >>

U64s == {SampleU64(i) : i \in 0..MaxU64Seed}

Sigs == 0..MaxSigSeed

SigLen == 96

\* blsSignatures.SignatureToBytes: the fixed-size encoding of a signature.
SignatureToBytes(s) == [k \in 1..SigLen |-> (s * (k + 10) + k) % 256]

\* blsSignatures.SignatureFromBytes: the signature a fixed-size encoding denotes.
SignatureFromBytes(b) ==
    IF \E s \in Sigs : SignatureToBytes(s) = b
    THEN <<CHOOSE s \in Sigs : SignatureToBytes(s) = b>>
    ELSE <<>>

DASMessageHeaderFlag == 128

Certificates ==
    [KeysetHash : Hashes, DataHash : Hashes, Timeout : U64s,
     SignersMask : U64s, Sig : Sigs]

\* byte(v >> (8*j)) of a uint64 held in limbs, j = 0 the least significant byte.
ShiftByte(v, j) ==
    LET limb == v[4 - (j \div 2)]
    IN  IF j % 2 = 0 THEN limb % 256 ELSE limb \div 256

PutUint64LittleEndian(v) == [i \in 1..8 |-> ShiftByte(v, i - 1)]

\* binary.BigEndian.PutUint64: b[0] = byte(v >> 56), ..., b[7] = byte(v).
PutUint64(v) == [i \in 1..8 |-> ShiftByte(v, 8 - i)]

\* binary.BigEndian.Uint64: the inverse of PutUint64.
Uint64(b) == [k \in 1..4 |-> b[2 * k - 1] * 256 + b[2 * k]]

serializeSignableFieldsWithMask(c) == c.DataHash \o PutUint64(c.SignersMask)

serializeSignableFields(c) ==
    LET buf0 == <<>>
        buf1 == buf0 \o c.DataHash
        intData == PutUint64(c.Timeout)
    IN  buf1 \o intData

SerializeMaskDropped(c) ==
    <<DASMessageHeaderFlag>> \o c.KeysetHash \o serializeSignableFields(c)
        \o PutUint64(<<0, 0, 0, 0>>) \o SignatureToBytes(c.Sig)

Serialize(c) ==
    LET buf0 == <<>>
        buf1 == Append(buf0, DASMessageHeaderFlag)
        buf2 == buf1 \o c.KeysetHash
        buf3 == buf2 \o serializeSignableFields(c)
        intData == PutUint64(c.SignersMask)
        buf4 == buf3 \o intData
    IN  buf4 \o SignatureToBytes(c.Sig)

\* The inverse of Serialize: fails on truncated or over-long input, on an
\* unknown header flag and on a signature encoding that denotes no signature.
Deserialize(b) ==
    IF Len(b) # 1 + 2 * HashLen + 16 + SigLen
    THEN [err |-> "truncated", cert |-> <<>>]
    ELSE IF b[1] # DASMessageHeaderFlag
    THEN [err |-> "unknown header flag", cert |-> <<>>]
    ELSE IF SignatureFromBytes(SubSeq(b, 2 * HashLen + 18, Len(b))) = <<>>
    THEN [err |-> "bad signature", cert |-> <<>>]
    ELSE [err |-> NilErr,
          cert |-> <<[KeysetHash |-> SubSeq(b, 2, HashLen + 1),
                      DataHash |-> SubSeq(b, HashLen + 2, 2 * HashLen + 1),
                      Timeout |-> Uint64(SubSeq(b, 2 * HashLen + 2, 2 * HashLen + 9)),
                      SignersMask |-> Uint64(SubSeq(b, 2 * HashLen + 10, 2 * HashLen + 17)),
                      Sig |-> SignatureFromBytes(SubSeq(b, 2 * HashLen + 18, Len(b)))[1]]>>]

\* A caller serializes both certificates.
CallSerialize ==
    /\ wire1 = <<>>
    /\ wire1' = Serialize(c1)
    /\ wire2' = Serialize(c2)
    /\ UNCHANGED <<c1, c2, signable1, signable2, decoded>>
    /\ UNCHANGED <<modeVars, addrVars, parseVars>>

\* A signer (or verifier) computes the bytes to sign for both certificates.
CallSerializeSignableFields ==
    /\ signable1 = <<>>
    /\ signable1' = serializeSignableFields(c1)
    /\ signable2' = serializeSignableFields(c2)
    /\ UNCHANGED <<c1, c2, wire1, wire2, decoded>>
    /\ UNCHANGED <<modeVars, addrVars, parseVars>>

\* A reader decodes the bytes Serialize produced for c1.
CallDeserialize ==
    /\ wire1 # <<>>
    /\ decoded = <<>>
    /\ decoded' = <<Deserialize(wire1)>>
    /\ UNCHANGED <<c1, c2, wire1, wire2, signable1, signable2>>
    /\ UNCHANGED <<modeVars, addrVars, parseVars>>

CodecNext ==
    \/ CallSerialize
    \/ CallSerializeSignableFields
    \/ CallDeserialize

(***************************************************************************)
(* Mode selector (das.go, DataAvailabilityConfig.Mode).                    *)
(***************************************************************************)
OnchainDataAvailability == 0
LocalDiskDataAvailability == 1
AggregatorDataAvailability == 2

OnchainDataAvailabilityString == "onchain"
LocalDiskDataAvailabilityString == "local-disk"
AggregatorDataAvailabilityString == "aggregator"

\* AggregatorConfig{} : every field at its zero value.
DefaultAggregatorConfig == [AssumedHonest |-> 0, Backends |-> ""]

DefaultDataAvailabilityConfig ==
    [ModeImpl |-> OnchainDataAvailabilityString,
     LocalDiskDASConfig |-> [DataDir |-> "", KeyDir |-> "", PrivKey |-> ""],
     AggregatorConfig |-> DefaultAggregatorConfig,
     StoreSignerAddress |-> ""]

ModeStrings ==
    {"", "onchain", "local-disk", "aggregator",
     "Onchain", "LOCAL-DISK", "Aggregator", "local", "remote"}

DataAvailabilityConfigs ==
    [ModeImpl : ModeStrings,
     LocalDiskDASConfig :
        [DataDir : {"", "/das/data"}, KeyDir : {"", "/das/keys"},
         PrivKey : {"", "0x1f"}],
     AggregatorConfig :
        [AssumedHonest : {0, 1}, Backends : {"", "[{\"url\":\"http://a\"}]"}],
     StoreSignerAddress : {"", "none"}]

\* What a call of c.Mode() does: the side effects it makes before returning,
\* in order (trace), the values it returns (mode, err) and the struct it
\* leaves behind its pointer receiver (c).
Return(sideEffects, mode, err, c) ==
    [trace |-> sideEffects, mode |-> mode, err |-> err, c |-> c]

\* Mode, lines 70-76: the mode string is "local-disk".
LocalDiskBranchEitherMissing(c) ==
    IF c.LocalDiskDASConfig.DataDir = ""
       /\ (c.LocalDiskDASConfig.KeyDir = "" /\ c.LocalDiskDASConfig.PrivKey = "")
    THEN Return(<<"flag.Usage">>, 0,
                "--data-availability.local-disk.data-dir and .key-dir must be specified if mode is set to local",
                c)
    ELSE Return(<<>>, LocalDiskDataAvailability, NilErr, c)

LocalDiskBranch(c) ==
    IF \/ c.LocalDiskDASConfig.DataDir = ""
       \/ (c.LocalDiskDASConfig.KeyDir = "" /\ c.LocalDiskDASConfig.PrivKey = "")
    THEN Return(<<"flag.Usage">>, 0,
                "--data-availability.local-disk.data-dir and .key-dir must be specified if mode is set to local",
                c)
    ELSE Return(<<>>, LocalDiskDataAvailability, NilErr, c)

\* Mode, lines 78-84: the mode string is "aggregator".
AggregatorBranchBackendsOnly(c) ==
    IF c.AggregatorConfig.Backends = DefaultAggregatorConfig.Backends
    THEN Return(<<"flag.Usage">>, 0,
                "--data-availability.aggregator.X config options must be specified if mode is set to aggregator",
                c)
    ELSE Return(<<>>, AggregatorDataAvailability, NilErr, c)

AggregatorBranch(c) ==
    IF c.AggregatorConfig = DefaultAggregatorConfig
    THEN Return(<<"flag.Usage">>, 0,
                "--data-availability.aggregator.X config options must be specified if mode is set to aggregator",
                c)
    ELSE Return(<<>>, AggregatorDataAvailability, NilErr, c)

\* Mode, lines 86-88: the mode string is none of the three.
UnrecognizedBranchFallsBack(c) ==
    Return(<<"flag.Usage">>, OnchainDataAvailability, NilErr, c)

UnrecognizedBranch(c) ==
    Return(<<"flag.Usage">>, 0,
           "--data-availability.mode " \o c.ModeImpl \o " not recognized", c)

ModeNormalising(c) ==
    IF c.ModeImpl = ""
    THEN Return(<<>>, 0, "--data-availability.mode missing",
                [c EXCEPT !.ModeImpl = OnchainDataAvailabilityString])
    ELSE IF c.ModeImpl = OnchainDataAvailabilityString
    THEN Return(<<>>, OnchainDataAvailability, NilErr, c)
    ELSE IF c.ModeImpl = LocalDiskDataAvailabilityString
    THEN LocalDiskBranch(c)
    ELSE IF c.ModeImpl = AggregatorDataAvailabilityString
    THEN AggregatorBranch(c)
    ELSE UnrecognizedBranch(c)

Mode(c) ==
    IF c.ModeImpl = ""
    THEN Return(<<>>, 0, "--data-availability.mode missing", c)
    ELSE IF c.ModeImpl = OnchainDataAvailabilityString
    THEN Return(<<>>, OnchainDataAvailability, NilErr, c)
    ELSE IF c.ModeImpl = LocalDiskDataAvailabilityString
    THEN LocalDiskBranch(c)
    ELSE IF c.ModeImpl = AggregatorDataAvailabilityString
    THEN AggregatorBranch(c)
    ELSE UnrecognizedBranch(c)

\* The process resolves the mode of its configuration (once at start, or again).
CallMode ==
    /\ modeCalls < MaxModeCalls
    /\ LET r == Mode(config)
       IN  /\ modeTrace' = r.trace \o <<"return">>
           /\ modeRet' = <<[mode |-> r.mode, err |-> r.err]>>
           /\ config' = r.c
    /\ modeCalls' = modeCalls + 1
    /\ UNCHANGED <<codecVars, addrVars, parseVars>>

ModeNext == CallMode

(***************************************************************************)
(* Store-signer address resolver (das.go, StoreSignerAddressFromString).   *)
(* The argument is a sequence of one-character strings.                    *)
(***************************************************************************)
AddressLength == 20

HexAlphabet ==
    << "0", "1", "2", "3", "4", "5", "6", "7", "8", "9",
       "a", "b", "c", "d", "e", "f", "A", "B", "C", "D", "E", "F" >>

IsHexChar(ch) == \E i \in DOMAIN HexAlphabet : HexAlphabet[i] = ch

\* encoding/hex fromHexChar: the value of a hex digit, either case.
FromHexChar(ch) ==
    LET i == CHOOSE j \in DOMAIN HexAlphabet : HexAlphabet[j] = ch
    IN  IF i <= 16 THEN i - 1 ELSE i - 7

\* hex.InvalidByteError: the message names the offending character.
InvalidByteError(ch) == "encoding/hex: invalid byte: " \o ch

ErrLength == "encoding/hex: odd length hex string"

\* encoding/hex Decode: pairs of digits from the left; the first bad character
\* ends it with InvalidByteError; an odd length ends it with ErrLength, unless
\* the dangling character is itself bad. j is the index of the pair's second
\* character, dst the bytes decoded so far.
RECURSIVE Decode(_, _, _)
Decode(src, j, dst) ==
    IF j <= Len(src)
    THEN LET p == src[j - 1]
             q == src[j]
         IN  IF ~IsHexChar(p)
             THEN [bytes |-> dst, err |-> InvalidByteError(p)]
             ELSE IF ~IsHexChar(q)
             THEN [bytes |-> dst, err |-> InvalidByteError(q)]
             ELSE Decode(src, j + 2,
                         Append(dst, FromHexChar(p) * 16 + FromHexChar(q)))
    ELSE IF Len(src) % 2 = 1
    THEN IF ~IsHexChar(src[j - 1])
         THEN [bytes |-> dst, err |-> InvalidByteError(src[j - 1])]
         ELSE [bytes |-> dst, err |-> ErrLength]
    ELSE [bytes |-> dst, err |-> NilErr]

\* hex.DecodeString
DecodeString(s) == Decode(s, 2, <<>>)

\* strings.TrimPrefix(s, "0x")
TrimPrefix0x(s) ==
    IF Len(s) >= 2 /\ s[1] = "0" /\ s[2] = "x"
    THEN SubSeq(s, 3, Len(s))
    ELSE s

\* common.BytesToAddress: if b is longer than an address it is cropped from
\* the left; the bytes are copied to the right end of a zeroed address.
BytesToAddress(b) ==
    LET bb == IF Len(b) > AddressLength
              THEN SubSeq(b, Len(b) - AddressLength + 1, Len(b))
              ELSE b
    IN  [k \in 1..AddressLength |->
            IF k > AddressLength - Len(bb)
            THEN bb[k - (AddressLength - Len(bb))]
            ELSE 0]

NoneString == << "n", "o", "n", "e" >>

StoreSignerAddressFromStringNoTrim(s) ==
    IF s = NoneString
    THEN [addr |-> <<>>, err |-> NilErr]
    ELSE LET d == DecodeString(s)
         IN  IF d.err # NilErr
             THEN [addr |-> <<>>, err |-> d.err]
             ELSE [addr |-> <<BytesToAddress(d.bytes)>>, err |-> NilErr]

StoreSignerAddressFromString(s) ==
    IF s = NoneString
    THEN [addr |-> <<>>, err |-> NilErr]
    ELSE LET s1 == TrimPrefix0x(s)
             d == DecodeString(s1)
         IN  IF d.err # NilErr
             THEN [addr |-> <<>>, err |-> d.err]
             ELSE [addr |-> <<BytesToAddress(d.bytes)>>, err |-> NilErr]

\* Argument strings: a prefix, then n characters cycling through the hex
\* alphabet (seed 0: all "0"), with at most one of them replaced by a
\* character that is no hex digit.
HexBody(n, seed) ==
    [i \in 1..n |-> HexAlphabet[((i * seed + 3 * seed) % 22) + 1]]

WithBadChar(body, pos) ==
    [i \in DOMAIN body |-> IF i = pos THEN "g" ELSE body[i]]

AddrPrefixes == { <<>>, <<"0", "x">>, <<"0", "X">>, <<"0", "x", "0", "x">> }

AddrInputs ==
    { <<"0", "x", "0", "1">>, <<"f", "F">> }
    \cup UNION { { pre \o WithBadChar(HexBody(n, seed), pos) :
                pre \in AddrPrefixes, seed \in 0..MaxBodySeed,
                pos \in {0, 1, 2, n} } : n \in 0..MaxHexChars }
    \cup { NoneString, <<"N", "o", "n", "e">>, <<"N", "O", "N", "E">>,
           <<"0", "x", "n", "o", "n", "e">>, <<"n", "o", "n", "e", " ">> }

\* The store-signer string of the configuration is resolved.
CallStoreSignerAddressFromString ==
    /\ addrRet = <<>>
    /\ addrRet' = <<StoreSignerAddressFromString(addrIn)>>
    /\ UNCHANGED addrIn
    /\ UNCHANGED <<codecVars, modeVars, parseVars>>

AddrNext == CallStoreSignerAddressFromString

(***************************************************************************)
(* Layered configuration loader (package util, BeginCommonParse).          *)
(* A koanf.Koanf is a function from the keys it holds to their values.     *)
(***************************************************************************)
ModeKey == "data-availability.mode"
ConfString == "conf.string"
ConfFile == "conf.file"
ConfS3SecretKey == "conf.s3.secret-key"
ConfEnvPrefix == "conf.env-prefix"

ControlKeys == {ConfString, ConfFile, ConfS3SecretKey, ConfEnvPrefix}

Keys == {ModeKey} \cup ControlKeys

EmptyMap == [key \in {} |-> ""]

ConfigFilePath == "/etc/nitro.json"
EnvPrefix == "NITRO"

\* The JSON documents the model knows, as the maps json.Parser() makes of
\* them: from source src, setting the mode key or not, and setting at most
\* one key of the conf section.
ConfText(extra) ==
    IF extra = ConfEnvPrefix THEN "\"conf\":{\"env-prefix\":\"" \o EnvPrefix \o "\"}"
    ELSE IF extra = ConfFile THEN "\"conf\":{\"file\":\"" \o ConfigFilePath \o "\"}"
    ELSE ""

JSONText(src, setsMode, extra) ==
    "{"
    \o (IF setsMode THEN "\"data-availability\":{\"mode\":\"" \o src \o "\"}" ELSE "")
    \o (IF setsMode /\ extra # "" THEN "," ELSE "")
    \o ConfText(extra)
    \o "}"

JSONMap(src, setsMode, extra) ==
    [key \in (IF setsMode THEN {ModeKey} ELSE {}) \cup (IF extra = "" THEN {} ELSE {extra})
        |-> IF key = ModeKey THEN src
            ELSE IF key = ConfEnvPrefix THEN EnvPrefix ELSE ConfigFilePath]

JSONExtras == {"", ConfEnvPrefix, ConfFile}

JSONTexts(src) == {JSONText(src, m, e) : m \in BOOLEAN, e \in JSONExtras}

InvalidJSON == "{\"data-availability\":"

JSONSources == {"string", "file", "s3"}

\* json.Parser() on a document: the map it denotes, or a syntax error.
JSONParse(text) ==
    IF \E src \in JSONSources, m \in BOOLEAN, e \in JSONExtras : JSONText(src, m, e) = text
    THEN LET w == CHOOSE w \in JSONSources \X BOOLEAN \X JSONExtras :
                      JSONText(w[1], w[2], w[3]) = text
         IN  [map |-> JSONMap(w[1], w[2], w[3]), err |-> NilErr]
    ELSE [map |-> EmptyMap, err |-> "unexpected end of JSON input"]

\* The environment variables the model knows, and the key the env provider's
\* callback makes of each under the prefix NITRO (prefix trimmed, lower case,
\* "__" to "-", then "_" to ".").
EnvVarNames == {"NITRO_DATA__AVAILABILITY_MODE", "NITRO_CONF_FILE"}

EnvVarKey(name) ==
    IF name = "NITRO_DATA__AVAILABILITY_MODE" THEN ModeKey ELSE ConfFile

EnvVarValue(name) ==
    IF name = "NITRO_DATA__AVAILABILITY_MODE" THEN "env" ELSE ConfigFilePath

\* k.Load: the loaded map is merged over what k holds.
Load(k, m) ==
    [key \in DOMAIN k \cup DOMAIN m |-> IF key \in DOMAIN m THEN m[key] ELSE k[key]]

\* k.String: the value of a key, "" when k does not hold it.
KString(k, key) == IF key \in DOMAIN k THEN k[key] ELSE ""

\* posflag.Provider(f, ".", k).Read(): every flag given on the command line,
\* and the default of every other flag whose key k does not hold yet.
PosflagRead(f, k) ==
    [key \in {x \in DOMAIN f.flags : f.flags[x].Changed \/ x \notin DOMAIN k}
        |-> f.flags[key].Value]

\* env.Provider(prefix + "_", ".", cb).Read()
EnvRead(w, prefix) ==
    IF prefix = EnvPrefix
    THEN [key \in {EnvVarKey(n) : n \in w.env} |->
            EnvVarValue(CHOOSE n \in w.env : EnvVarKey(n) = key)]
    ELSE EmptyMap

Ok(k) == [k |-> k, err |-> NilErr]
Fail(k, msg) == [k |-> k, err |-> msg]

loadEnvironmentVariables(k, w) ==
    LET envPrefix == KString(k, ConfEnvPrefix)
    IN  IF Len(envPrefix) # 0
        THEN Ok(Load(k, EnvRead(w, envPrefix)))
        ELSE Ok(k)

\* k.Load(s3.Provider(...), nil): the load fails (w.s3 = <<>>: the object
\* cannot be fetched, or the provider cannot be read without a parser), or it
\* merges the settings of the object.
loadS3Variables(k, w) ==
    IF w.s3 = <<>>
    THEN Fail(k, "s3 load failed")
    ELSE LET p == JSONParse(w.s3[1])
         IN  IF p.err # NilErr THEN Fail(k, p.err) ELSE Ok(Load(k, p.map))

applyOverrideOverridesEnvFirst(f, k, w) ==
    LET r0 == loadEnvironmentVariables(Load(k, PosflagRead(f, k)), w)
        k1 == r0.k
        configString == KString(k1, ConfString)
        p == JSONParse(configString)
    IN  IF Len(configString) > 0
        THEN IF p.err # NilErr
             THEN Fail(k1, "error loading config string config: " \o p.err)
             ELSE Ok(Load(Load(k1, p.map), PosflagRead(f, Load(k1, p.map))))
        ELSE Ok(Load(k1, PosflagRead(f, k1)))

applyOverrideOverrides(f, k, w) ==
    LET k1 == Load(k, PosflagRead(f, k))
        configString == KString(k1, ConfString)
        p == JSONParse(configString)
        k2 == Load(k1, p.map)
        k3 == Load(k2, PosflagRead(f, k2))
    IN  IF Len(configString) > 0
        THEN IF p.err # NilErr
             THEN Fail(k1, "error loading config string config: " \o p.err)
             ELSE loadEnvironmentVariables(k3, w)
        ELSE loadEnvironmentVariables(k1, w)

\* The local config file part of applyOverrides (from "configFile := ..." on).
applyLocalFile(f, k, w) ==
    LET configFile == KString(k, ConfFile)
        p == JSONParse(w.files[configFile][1])
    IN  IF Len(configFile) > 0
        THEN IF configFile \notin DOMAIN w.files \/ w.files[configFile] = <<>>
             THEN Fail(k, "error loading local config file: no such file")
             ELSE IF p.err # NilErr
             THEN Fail(k, "error loading local config file: " \o p.err)
             ELSE applyOverrideOverrides(f, Load(k, p.map), w)
        ELSE Ok(k)

applyOverrides(f, k, w) ==
    LET r1 == applyOverrideOverrides(f, k, w)
        s3 == loadS3Variables(r1.k, w)
        r2 == applyOverrideOverrides(f, s3.k, w)
    IN  IF r1.err # NilErr THEN r1
        ELSE IF Len(KString(r1.k, ConfS3SecretKey)) # 0
        THEN IF s3.err # NilErr
             THEN Fail(r1.k, "error loading S3 settings: " \o s3.err)
             ELSE IF r2.err # NilErr THEN r2
             ELSE applyLocalFile(f, r2.k, w)
        ELSE applyLocalFile(f, r1.k, w)

\* f is the flag set after f.Parse(args): parseErr is Parse's error, NArg the
\* number of arguments left over.
BeginCommonParse(f, w) ==
    IF f.parseErr # NilErr
    THEN [k |-> <<>>, err |-> f.parseErr]
    ELSE IF f.NArg # 0
    THEN [k |-> <<>>, err |-> "unexpected number of parameters"]
    ELSE LET r == applyOverrides(f, EmptyMap, w)
         IN  IF r.err # NilErr
             THEN [k |-> <<>>, err |-> r.err]
             ELSE [k |-> <<r.k>>, err |-> NilErr]

\* A flag as pflag holds it after Parse: Changed when the command line gave
\* it, Value its value (the default when not Changed).
Unset(default) == [Changed |-> FALSE, Value |-> default]
Given(value) == [Changed |-> TRUE, Value |-> value]

AbsentFilePath == "/etc/absent.json"

GoodFlags ==
    { [key \in Keys |->
          IF key = ModeKey THEN m
          ELSE IF key = ConfString THEN s
          ELSE IF key = ConfFile THEN fl
          ELSE IF key = ConfS3SecretKey THEN s3
          ELSE e] :
        m \in {Unset(OnchainDataAvailabilityString), Given("cli")},
        s \in {Unset("")} \cup {Given(x) : x \in JSONTexts("string") \cup {InvalidJSON}},
        fl \in {Unset(""), Given(ConfigFilePath), Given(AbsentFilePath)},
        s3 \in {Unset(""), Given("s3-secret")},
        e \in {Unset(""), Given(EnvPrefix)} }

DefaultFlags ==
    [key \in Keys |->
        IF key = ModeKey THEN Unset(OnchainDataAvailabilityString) ELSE Unset("")]

ParsedFlagSets ==
    { [parseErr |-> NilErr, NArg |-> 0, flags |-> fl] : fl \in GoodFlags }
    \cup { [parseErr |-> "unknown flag: --bogus", NArg |-> 0, flags |-> DefaultFlags],
           [parseErr |-> NilErr, NArg |-> 1, flags |-> DefaultFlags] }

Worlds ==
    [files : [{ConfigFilePath} -> {<<>>} \cup {<<x>> : x \in JSONTexts("file") \cup {InvalidJSON}}],
     s3 : {<<>>} \cup {<<x>> : x \in JSONTexts("s3")},
     env : SUBSET EnvVarNames]

RestFlagSet == [parseErr |-> NilErr, NArg |-> 0, flags |-> DefaultFlags]

RestWorld == [files |-> [x \in {ConfigFilePath} |-> <<>>], s3 |-> <<>>, env |-> {}]

\* The process parses its command line and loads its configuration.
CallBeginCommonParse ==
    /\ parseRet = <<>>
    /\ parseRet' = <<BeginCommonParse(flagSet, world)>>
    /\ UNCHANGED <<flagSet, world>>
    /\ UNCHANGED <<codecVars, modeVars, addrVars>>

ParseNext == CallBeginCommonParse

(***************************************************************************)
(* Specifications: one per unit.  A unit that a specification does not     *)
(* exercise starts in its rest state (no certificate, the default          *)
(* configuration, an empty argument, no flags given) and stays there.      *)
(***************************************************************************)
CodecInit ==
    /\ c1 \in Certificates /\ c2 \in Certificates
    /\ wire1 = <<>> /\ wire2 = <<>>
    /\ signable1 = <<>> /\ signable2 = <<>>
    /\ decoded = <<>>
    /\ config = DefaultDataAvailabilityConfig
    /\ modeRet = <<>> /\ modeTrace = <<>> /\ modeCalls = 0
    /\ addrIn = <<>> /\ addrRet = <<>>
    /\ flagSet = RestFlagSet /\ world = RestWorld /\ parseRet = <<>>

ModeInit ==
    /\ c1 = <<>> /\ c2 = <<>>
    /\ wire1 = <<>> /\ wire2 = <<>>
    /\ signable1 = <<>> /\ signable2 = <<>>
    /\ decoded = <<>>
    /\ config \in DataAvailabilityConfigs
    /\ modeRet = <<>> /\ modeTrace = <<>> /\ modeCalls = 0
    /\ addrIn = <<>> /\ addrRet = <<>>
    /\ flagSet = RestFlagSet /\ world = RestWorld /\ parseRet = <<>>

AddrInit ==
    /\ c1 = <<>> /\ c2 = <<>>
    /\ wire1 = <<>> /\ wire2 = <<>>
    /\ signable1 = <<>> /\ signable2 = <<>>
    /\ decoded = <<>>
    /\ config = DefaultDataAvailabilityConfig
    /\ modeRet = <<>> /\ modeTrace = <<>> /\ modeCalls = 0
    /\ addrIn \in AddrInputs /\ addrRet = <<>>
    /\ flagSet = RestFlagSet /\ world = RestWorld /\ parseRet = <<>>

ParseInit ==
    /\ c1 = <<>> /\ c2 = <<>>
    /\ wire1 = <<>> /\ wire2 = <<>>
    /\ signable1 = <<>> /\ signable2 = <<>>
    /\ decoded = <<>>
    /\ config = DefaultDataAvailabilityConfig
    /\ modeRet = <<>> /\ modeTrace = <<>> /\ modeCalls = 0
    /\ addrIn = <<>> /\ addrRet = <<>>
    /\ flagSet \in ParsedFlagSets /\ world \in Worlds /\ parseRet = <<>>

CodecSpec == CodecInit /\ [][CodecNext]_vars

ModeSpec == ModeInit /\ [][ModeNext]_vars

AddrSpec == AddrInit /\ [][AddrNext]_vars

ParseSpec == ParseInit /\ [][ParseNext]_vars

(***************************************************************************)
(* Properties of the certificate codec, checked under CodecSpec.           *)
(***************************************************************************)

\* C1: deserializing the bytes Serialize made of a certificate gives back a
\* certificate equal to it in all five fields, and Serialize maps two
\* certificates that differ in some field to different byte strings.
C1_RoundTrip ==
    /\ decoded # <<>> =>
         /\ decoded[1].err = NilErr
         /\ decoded[1].cert = <<c1>>
    /\ (wire1 # <<>> /\ c1 # c2) => wire1 # wire2

C1_Witness ==
    /\ decoded # <<>>
    /\ c1.KeysetHash # c1.DataHash
    /\ c1.Timeout # c1.SignersMask
    /\ c1.SignersMask # SampleU64(0)
    /\ c1.Sig # 0
    /\ c2 = [c1 EXCEPT !.SignersMask = SampleU64(0)]

\* C2: Serialize(c) is the header flag byte, the 32 bytes of KeysetHash, the
\* 32 bytes of DataHash, Timeout as 8 big-endian bytes, SignersMask as 8
\* big-endian bytes, then the signature bytes, 81 bytes plus the signature in
\* all; equal certificates serialize to equal bytes.
C2_WireLayout ==
    wire1 # <<>> =>
        /\ Len(wire1) = 81 + Len(SignatureToBytes(c1.Sig))
        /\ wire1[1] = DASMessageHeaderFlag
        /\ SubSeq(wire1, 2, 33) = c1.KeysetHash
        /\ SubSeq(wire1, 34, 65) = c1.DataHash
        /\ \A j \in 0..7 : wire1[66 + j] = ShiftByte(c1.Timeout, 7 - j)
        /\ \A j \in 0..7 : wire1[74 + j] = ShiftByte(c1.SignersMask, 7 - j)
        /\ SubSeq(wire1, 82, Len(wire1)) = SignatureToBytes(c1.Sig)
        /\ c1 = c2 => wire1 = wire2

C2_Witness ==
    /\ wire1 # <<>>
    /\ c1.KeysetHash # c1.DataHash
    /\ c1.Timeout = SampleU64(1)
    /\ c1.SignersMask = SampleU64(0)
    /\ wire1[66] = 1 /\ wire1[73] = 8

\* C3: the signable bytes are the 32 bytes of DataHash followed by Timeout as
\* 8 big-endian bytes, 40 bytes in all; two certificates with the same
\* DataHash and Timeout have the same signable bytes whatever their other
\* fields; and they are the bytes at offsets 33..72 of Serialize(c).
C3_SignableFields ==
    signable1 # <<>> =>
        /\ Len(signable1) = 40
        /\ SubSeq(signable1, 1, 32) = c1.DataHash
        /\ \A j \in 0..7 : signable1[33 + j] = ShiftByte(c1.Timeout, 7 - j)
        /\ (c1.DataHash = c2.DataHash /\ c1.Timeout = c2.Timeout)
              => signable1 = signable2
        /\ wire1 # <<>> => SubSeq(wire1, 34, 73) = signable1

C3_Witness ==
    /\ signable1 # <<>>
    /\ wire1 # <<>>
    /\ c1.DataHash = c2.DataHash /\ c1.Timeout = c2.Timeout
    /\ c1.KeysetHash # c2.KeysetHash
    /\ c1.SignersMask # c2.SignersMask
    /\ c1.Sig # c2.Sig
    /\ c1.Timeout # c1.SignersMask

(***************************************************************************)
(* Properties of the mode selector, checked under ModeSpec.                *)
(***************************************************************************)
ModeCalled == modeRet # <<>>

ModeSucceeded(mode) == modeRet[1].mode = mode /\ modeRet[1].err = NilErr

\* flag.Usage() ran, and ran before Mode returned.
UsageBeforeReturn ==
    \E i, j \in DOMAIN modeTrace :
        i < j /\ modeTrace[i] = "flag.Usage" /\ modeTrace[j] = "return"

LocalDiskParamsGiven ==
    /\ config.LocalDiskDASConfig.DataDir # ""
    /\ \/ config.LocalDiskDASConfig.KeyDir # ""
       \/ config.LocalDiskDASConfig.PrivKey # ""

\* C4: with mode "local-disk", Mode returns LocalDiskDataAvailability and no
\* error exactly when data-dir is non-empty and key-dir or the inline private
\* key is non-empty; otherwise it returns an error, after emitting the usage
\* hint.
C4_LocalDiskRequiresParams ==
    (ModeCalled /\ config.ModeImpl = "local-disk") =>
        /\ ModeSucceeded(LocalDiskDataAvailability) <=> LocalDiskParamsGiven
        /\ ~LocalDiskParamsGiven =>
             /\ modeRet[1].err # NilErr
             /\ UsageBeforeReturn

C4_Witness ==
    /\ ModeCalled /\ config.ModeImpl = "local-disk"
    /\ config.LocalDiskDASConfig.DataDir # ""
    /\ config.LocalDiskDASConfig.KeyDir = ""
    /\ config.LocalDiskDASConfig.PrivKey = ""
    /\ modeRet[1].err # NilErr
    /\ modeTrace = <<"flag.Usage", "return">>

\* C5: with mode "aggregator", Mode returns AggregatorDataAvailability and no
\* error exactly when the aggregator sub-config differs from its default in
\* some field; with every field at its default it fails with the error that
\* names the aggregator section.
C5_AggregatorRequiresConfig ==
    (ModeCalled /\ config.ModeImpl = "aggregator") =>
        /\ ModeSucceeded(AggregatorDataAvailability)
             <=> (\E fld \in DOMAIN DefaultAggregatorConfig :
                     config.AggregatorConfig[fld] # DefaultAggregatorConfig[fld])
        /\ (\A fld \in DOMAIN DefaultAggregatorConfig :
               config.AggregatorConfig[fld] = DefaultAggregatorConfig[fld])
             => modeRet[1].err =
                  "--data-availability.aggregator.X config options must be specified if mode is set to aggregator"

C5_Witness ==
    /\ ModeCalled /\ config.ModeImpl = "aggregator"
    /\ config.AggregatorConfig.AssumedHonest # 0
    /\ config.AggregatorConfig.Backends = ""
    /\ ModeSucceeded(AggregatorDataAvailability)

RecognizedModeStrings == {"onchain", "local-disk", "aggregator"}

NotRecognizedError(s) == "--data-availability.mode " \o s \o " not recognized"

\* C6 as claimed: every mode string other than the three, the empty string
\* included, fails with the "not recognized" error naming the string;
\* "onchain" resolves to OnchainDataAvailability whatever the sub-configs are.
C6_UnrecognizedAlwaysNamed ==
    ModeCalled =>
        /\ config.ModeImpl \notin RecognizedModeStrings
             => modeRet[1].err = NotRecognizedError(config.ModeImpl)
        /\ config.ModeImpl = "onchain" => ModeSucceeded(OnchainDataAvailability)

\* C6 as amended: every non-empty mode string other than the three fails with
\* the "not recognized" error naming the string; the empty string fails with
\* the "mode missing" error, which names no string; neither resolves to a
\* mode; "onchain" resolves to OnchainDataAvailability whatever the
\* sub-configs are.
C6_UnrecognizedOrMissing ==
    ModeCalled =>
        /\ (config.ModeImpl \notin RecognizedModeStrings /\ config.ModeImpl # "")
             => modeRet[1].err = NotRecognizedError(config.ModeImpl)
        /\ config.ModeImpl = ""
             => modeRet[1].err = "--data-availability.mode missing"
        /\ config.ModeImpl \notin RecognizedModeStrings => modeRet[1].err # NilErr
        /\ config.ModeImpl = "onchain" => ModeSucceeded(OnchainDataAvailability)

C6_Witness ==
    /\ ModeCalled
    /\ config.ModeImpl = "Onchain"
    /\ modeRet[1].err = "--data-availability.mode Onchain not recognized"

\* C10: a call of Mode leaves every field of the configuration as it was, on
\* success and on error alike, and a repeated call on the same configuration
\* returns the same mode and the same error as the call before it.
C10_ModeIdempotent ==
    [][modeCalls' = modeCalls + 1 =>
          /\ config' = config
          /\ ModeCalled => modeRet' = modeRet]_vars

C10_Witness ==
    /\ modeCalls >= 2
    /\ config.ModeImpl = ""
    /\ modeRet[1].err # NilErr

(***************************************************************************)
(* Properties of the address resolver, checked under AddrSpec.             *)
(***************************************************************************)
AddrCalled == addrRet # <<>>

\* The argument with one leading "0x" taken off, if it has one.
Remainder ==
    IF Len(addrIn) >= 2 /\ <<addrIn[1], addrIn[2]>> = <<"0", "x">>
    THEN [i \in 1..(Len(addrIn) - 2) |-> addrIn[i + 2]]
    ELSE addrIn

RemainderIsHex ==
    /\ Len(Remainder) % 2 = 0
    /\ \A i \in DOMAIN Remainder : IsHexChar(Remainder[i])

\* The bytes an even-length hex remainder denotes, two digits a byte.
RemainderBytes ==
    [k \in 1..(Len(Remainder) \div 2) |->
        FromHexChar(Remainder[2 * k - 1]) * 16 + FromHexChar(Remainder[2 * k])]

\* The 20-byte address that ends with the bytes b: b left-padded with zero
\* bytes when shorter than 20 bytes, the last 20 bytes of b when longer.
RightAligned(b) ==
    [k \in 1..20 |->
        IF k + Len(b) - 20 >= 1 THEN b[k + Len(b) - 20] ELSE 0]

\* C7 as claimed: (nil, no error) exactly for "none"; any other argument has
\* one optional leading "0x" stripped and the rest decoded as hex into exactly
\* 20 bytes, which the returned address holds; an odd-length or non-hex rest
\* gives an error and no address.
C7_DecodesExactly20Bytes ==
    AddrCalled =>
        /\ (addrRet[1].addr = <<>> /\ addrRet[1].err = NilErr) <=> addrIn = NoneString
        /\ (addrIn # NoneString /\ RemainderIsHex) =>
             /\ addrRet[1].err = NilErr
             /\ Len(RemainderBytes) = 20
             /\ addrRet[1].addr = <<RemainderBytes>>
        /\ (addrIn # NoneString /\ ~RemainderIsHex) =>
             /\ addrRet[1].err # NilErr
             /\ addrRet[1].addr = <<>>

\* C7 as amended: (nil, no error) exactly for "none"; any other argument has
\* one optional leading "0x" stripped and the rest decoded as hex, and the
\* returned address is the 20 bytes that end with the decoded bytes: the
\* decoded bytes themselves when there are 20, left-padded with zero bytes
\* when there are fewer, the last 20 of them when there are more; an
\* odd-length or non-hex rest gives an error and no address.
C7_DecodesRightAligned ==
    AddrCalled =>
        /\ (addrRet[1].addr = <<>> /\ addrRet[1].err = NilErr) <=> addrIn = NoneString
        /\ (addrIn # NoneString /\ RemainderIsHex) =>
             /\ addrRet[1].err = NilErr
             /\ addrRet[1].addr = <<RightAligned(RemainderBytes)>>
        /\ (addrIn # NoneString /\ ~RemainderIsHex) =>
             /\ addrRet[1].err # NilErr
             /\ addrRet[1].addr = <<>>

C7_Witness ==
    /\ AddrCalled
    /\ Len(addrIn) = 44 /\ addrIn[2] = "x"
    /\ RemainderIsHex
    /\ Len(RemainderBytes) = 21
    /\ RemainderBytes[1] # 0
    /\ addrRet[1].err = NilErr
    /\ addrRet[1].addr[1][1] = RemainderBytes[2]

\* C8: the empty store-signer string, the default of the configuration,
\* resolves like "none": nil address and no error.
C8_EmptyMeansNoSigner ==
    (AddrCalled /\ addrIn = <<>>) =>
        /\ addrRet[1].addr = <<>>
        /\ addrRet[1].err = NilErr

(***************************************************************************)
(* Properties of the configuration loader, checked under ParseSpec.        *)
(***************************************************************************)
ParseSucceeded == parseRet # <<>> /\ parseRet[1].err = NilErr

FlagValue(key) == flagSet.flags[key].Value

\* What each source says, when the flag that selects it is non-empty.
CLISays ==
    [key \in {x \in Keys : flagSet.flags[x].Changed} |-> FlagValue(key)]

StringSays ==
    IF FlagValue(ConfString) # "" /\ JSONParse(FlagValue(ConfString)).err = NilErr
    THEN JSONParse(FlagValue(ConfString)).map
    ELSE EmptyMap

FileSays ==
    IF /\ FlagValue(ConfFile) \in DOMAIN world.files
       /\ world.files[FlagValue(ConfFile)] # <<>>
       /\ JSONParse(world.files[FlagValue(ConfFile)][1]).err = NilErr
    THEN JSONParse(world.files[FlagValue(ConfFile)][1]).map
    ELSE EmptyMap

S3Says ==
    IF FlagValue(ConfS3SecretKey) # "" /\ world.s3 # <<>>
    THEN JSONParse(world.s3[1]).map
    ELSE EmptyMap

EnvSays ==
    IF FlagValue(ConfEnvPrefix) = EnvPrefix
    THEN [key \in {EnvVarKey(n) : n \in world.env} |->
            EnvVarValue(CHOOSE n \in world.env : EnvVarKey(n) = key)]
    ELSE EmptyMap

\* The sources are selected by the flags alone: no source other than the
\* command line sets a conf.* key.
SourcesSelectedByFlags ==
    \A m \in {StringSays, FileSays, S3Says, EnvSays} : DOMAIN m \cap ControlKeys = {}

\* The value of key in the first of the sources (highest precedence first)
\* that sets it, and the flag's default when none does.
RECURSIVE FirstToSay(_, _)
FirstToSay(sources, key) ==
    IF sources = <<>> THEN FlagValue(key)
    ELSE IF key \in DOMAIN Head(sources) THEN Head(sources)[key]
    ELSE FirstToSay(Tail(sources), key)

\* C9 as claimed: after BeginCommonParse the value of a key is the one from
\* the highest-precedence source that sets it, in the order command line,
\* config string, local file, S3, environment, default.
C9_CLIFirstPrecedence ==
    (ParseSucceeded /\ SourcesSelectedByFlags) =>
        parseRet[1].k[1][ModeKey] =
            FirstToSay(<<CLISays, StringSays, FileSays, S3Says, EnvSays>>, ModeKey)

\* C9 as amended: after BeginCommonParse the value of a key is the one from
\* the highest-precedence source that sets it, in the order environment,
\* command line, config string, local file, S3, default (the sources being
\* selected by the conf.* flags, which no other source sets).
C9_EnvFirstPrecedence ==
    (ParseSucceeded /\ SourcesSelectedByFlags) =>
        parseRet[1].k[1][ModeKey] =
            FirstToSay(<<EnvSays, CLISays, StringSays, FileSays, S3Says>>, ModeKey)

C9_Witness ==
    /\ ParseSucceeded /\ SourcesSelectedByFlags
    /\ \A m \in {CLISays, StringSays, FileSays, S3Says, EnvSays} : ModeKey \in DOMAIN m
    /\ parseRet[1].k[1][ModeKey] = "env"

====
